---- MODULE Spec2Model ----
(***************************************************************************)
(* Model of internal/extproc/chatcompletion_processor.go: the per-stream   *)
(* chat-completion processor of the external-processing filter.            *)
(*                                                                         *)
(* The processor is the record c (the fields of chatCompletionProcessor);  *)
(* metrics is the x.ChatCompletionMetrics sink the factory captured.  The  *)
(* collaborators that live outside this file (router, translator, dynamic  *)
(* selector, auth handler, cost-expression evaluator, gzip) are inputs:    *)
(* every handler takes their results from small sets.                      *)
(*                                                                         *)
(* uint32 and uint64 values are kept at their real width as sequences of   *)
(* 16-bit limbs, most significant first (TLC's own integers are 32-bit     *)
(* signed and cannot hold 2^32).                                           *)
(***************************************************************************)
EXTENDS Integers, Sequences, FiniteSets, TLC

\* ------------------------------------------------------------------ bounds

\* Events one stream delivers to the processor when they come in any order.
MaxEvents == 3

\* Response-body events of one exchange when the events come in the proxy's order.
MaxBodies == 2

\* Events each of two concurrent streams delivers to its processor.
MaxStreamEvents == 2

\* ------------------------------------------------------- fixed-width numbers

Limb == 2 ^ 16

\* uint32: <<hi, lo>>.
U32(hi, lo) == <<hi, lo>>
U32Zero == U32(0, 0)
U32Max == U32(Limb - 1, Limb - 1)

\* Go's uint32 `+=`: addition modulo 2^32.
U32Add(a, b) ==
    LET lo == a[2] + b[2]
        hi == a[1] + b[1] + (lo \div Limb)
    IN  <<hi % Limb, lo % Limb>>

U32Leq(a, b) == a[1] < b[1] \/ (a[1] = b[1] /\ a[2] <= b[2])

\* An exact natural number below 2^48: <<over, hi, lo>>, value over*2^32 + hi*2^16 + lo.
NatOfU32(a) == <<0, a[1], a[2]>>
NatAdd(s, d) ==
    LET lo == s[3] + d[2]
        hi == s[2] + d[1] + (lo \div Limb)
    IN  <<s[1] + (hi \div Limb), hi % Limb, lo % Limb>>

\* uint64: <<l3, l2, l1, l0>>.  Go's uint32(v) conversion keeps the low 32 bits.
U32OfU64(v) == <<v[3], v[4]>>
U64FitsU32(v) == v[1] = 0 /\ v[2] = 0

\* ------------------------------------------------------------ configuration

\* processorConfig.modelNameHeaderKey / selectedBackendHeaderKey / metadataNamespace.
modelNameHeaderKey == "x-ai-eg-model"
selectedBackendHeaderKey == "x-ai-eg-selected-backend"
metadataNamespace == "io.envoy.ai_gateway"
HeaderKeys == {modelNameHeaderKey, selectedBackendHeaderKey}

\* filterapi.APISchemaName values; "Cohere" stands for a schema without translator.
APISchemaOpenAI == "OpenAI"
APISchemaAWSBedrock == "AWSBedrock"
APISchemaAzureOpenAI == "AzureOpenAI"

\* config.schema.Name: the inbound schemas a configuration can name.
InboundSchemas == {APISchemaOpenAI, APISchemaAWSBedrock}

\* filterapi.LLMRequestCostType values.
LLMRequestCostTypeInputToken == "InputToken"
LLMRequestCostTypeOutputToken == "OutputToken"
LLMRequestCostTypeTotalToken == "TotalToken"
LLMRequestCostTypeCEL == "CEL"

Backend(name, schema, lb) == [Name |-> name, Schema |-> schema, DynamicLoadBalancing |-> lb]

\* Backends the router (config.router.Calculate) can return.
RouterBackends ==
    { Backend("openai", APISchemaOpenAI, "nil"),
      Backend("aws-bedrock", APISchemaAWSBedrock, "nil"),
      Backend("cohere", "Cohere", "nil"),
      Backend("dyn", APISchemaOpenAI, "lb1"),
      Backend("dyn-unknown", APISchemaOpenAI, "lb-missing") }

\* config.dynamicLoadBalancers: the selector references that have an entry.
dynamicLoadBalancers == {"lb1"}

\* Concrete backends a selector (SelectChatCompletionsEndpoint) can return.
SelectorBackends == { Backend("azure", APISchemaAzureOpenAI, "nil") }

\* Headers the selector contributes.
SelectorHeaders == << <<"x-ai-eg-original-dst", "10.0.0.1:8080">> >>

\* config.backendAuthHandlers: the backend names with a registered handler.
backendAuthHandlers == {"openai", "azure"}

CostRule(type, key) == [Type |-> type, MetadataKey |-> key]

\* config.requestCosts: the configurations a stream can run under.
RequestCostConfigs ==
    { << >>,
      << CostRule(LLMRequestCostTypeInputToken, "input"),
         CostRule(LLMRequestCostTypeCEL, "c") >>,
      << CostRule(LLMRequestCostTypeOutputToken, "output"),
         CostRule(LLMRequestCostTypeTotalToken, "total") >> }

\* ------------------------------------------------------------------ inputs

Models == {"gpt-4o-mini"}

\* The model the requests of a second, concurrent stream name.
PeerModels == {"claude-3"}

\* What the client sent under both configured header keys ("": neither is present).
ClientHeaderValues == {"", "client-value"}

\* extprocv3.HttpBody of a request-body event: bytes that are JSON or not.
RequestBodies ==
    {[json |-> FALSE, Model |-> "", Stream |-> FALSE]}
        \cup [json : {TRUE}, Model : Models, Stream : BOOLEAN]

NilMutation == [nil |-> TRUE, SetHeaders |-> << >>]
HeaderMutation(hs) == [nil |-> FALSE, SetHeaders |-> hs]

\* Results of router.Calculate: a backend, x.ErrNoMatchingRule or another error.
ErrNoMatchingRule == "no matching rule found"
RouterResults ==
    {[err |-> "nil", b |-> b] : b \in RouterBackends}
        \cup {[err |-> e, b |-> Backend("", "", "nil")] : e \in {ErrNoMatchingRule, "router failure"}}

\* Results of lb.SelectChatCompletionsEndpoint.
SelectorResults ==
    {[err |-> FALSE, b |-> b, headers |-> SelectorHeaders] : b \in SelectorBackends}
        \cup {[err |-> TRUE, b |-> Backend("", "", "nil"), headers |-> << >>]}

\* Results of translator.RequestBody.
TranslatorRequestResults ==
    { [err |-> TRUE, headerMutation |-> NilMutation, bodyMutation |-> "nil"],
      [err |-> FALSE, headerMutation |-> NilMutation, bodyMutation |-> "nil"],
      [err |-> FALSE, headerMutation |-> HeaderMutation(<< <<":path", "/translated">> >>),
       bodyMutation |-> "translated-request"] }

\* Results of authHandler.Do (nil or an error).
AuthResults == {"nil", "auth failure"}

\* Response headers the proxy delivers.
Statuses == {"200", "500"}
ContentEncodings == {"", "gzip"}

\* Results of translator.ResponseHeaders.
TranslatorResponseHeadersResults ==
    { [err |-> TRUE, headerMutation |-> NilMutation],
      [err |-> FALSE, headerMutation |-> NilMutation],
      [err |-> FALSE, headerMutation |-> HeaderMutation(<< <<"content-type", "application/json">> >>)] }

\* Response-body bytes: none, bytes that begin a gzip member (its 10-byte header
\* first), and other bytes (plain text, or the middle of a gzip member).
BodyEmpty == ""
BodyGzipHead == "gzip-head"
BodyOther == "other"
ResponseBodies == {BodyEmpty, BodyGzipHead, BodyOther}

LLMTokenUsage(in, out, total) == [InputTokens |-> in, OutputTokens |-> out, TotalTokens |-> total]
TokenKinds == {"InputTokens", "OutputTokens", "TotalTokens"}

\* Token-usage deltas a translator reports: none, 10+3, and 2^31 + (2^31-1).
TokenUsages ==
    { LLMTokenUsage(U32Zero, U32Zero, U32Zero),
      LLMTokenUsage(U32(0, 10), U32(0, 3), U32(0, 13)),
      LLMTokenUsage(U32(Limb \div 2, 0), U32(Limb \div 2 - 1, Limb - 1), U32Max) }

\* Results of translator.ResponseBody.
TranslatorResponseBodyResults ==
    { [err |-> TRUE, headerMutation |-> NilMutation, bodyMutation |-> "nil",
       tokenUsage |-> LLMTokenUsage(U32Zero, U32Zero, U32Zero)],
      [err |-> FALSE, headerMutation |-> NilMutation, bodyMutation |-> "nil",
       tokenUsage |-> LLMTokenUsage(U32Zero, U32Zero, U32Zero)] }
        \cup {[err |-> FALSE,
               headerMutation |-> HeaderMutation(<< <<"content-length", "42">> >>),
               bodyMutation |-> "translated-response", tokenUsage |-> u] : u \in TokenUsages}

\* Results of llmcostcel.EvaluateProgram: an error, 23, or 2^32 + 5 (a uint64).
EvalResults ==
    { [err |-> TRUE, value |-> <<0, 0, 0, 0>>],
      [err |-> FALSE, value |-> <<0, 0, 0, 23>>],
      [err |-> FALSE, value |-> <<0, 1, 0, 5>>] }

\* ------------------------------------------------------------------- state

VARIABLES
    config,   \* processorConfig: the inbound schema and request-cost rules of this snapshot
    c,        \* the chatCompletionProcessor of the stream
    metrics,  \* the ChatCompletionMetrics sink
    last,     \* what the last handler was given, returned and recorded
    ghost,    \* what the stream has seen so far, for the properties only
    peer      \* a second stream of the same factory: its processor and what it has seen

vars == <<config, c, metrics, last, ghost, peer>>

NoHeaders == [k \in {":status", "content-encoding"} |-> ""]

\* The processor ChatCompletionProcessorFactory builds.
NewProcessor(requestHeaders) ==
    [ nil |-> FALSE,
      requestHeaders |-> requestHeaders,
      responseHeaders |-> NoHeaders,
      responseEncoding |-> "",
      translator |-> "nil",
      costs |-> LLMTokenUsage(U32Zero, U32Zero, U32Zero),
      stream |-> FALSE,
      dynamicLB |-> "nil" ]

\* The nil Processor a failed construction returns.
NilProcessor == [NewProcessor([k \in HeaderKeys |-> ""]) EXCEPT !.nil = TRUE]

\* Variant: the inbound schema is not looked at.
ChatCompletionProcessorFactoryAnySchema(cfg, requestHeaders) ==
    [processor |-> NewProcessor(requestHeaders), err |-> "nil"]

\* The factory method ChatCompletionProcessorFactory returns.
ChatCompletionProcessorFactory(cfg, requestHeaders) ==
    IF cfg.schema /= APISchemaOpenAI
    THEN [processor |-> NilProcessor, err |-> "unsupported API schema"]
    ELSE [processor |-> NewProcessor(requestHeaders), err |-> "nil"]

NilMetadata == [nil |-> TRUE, namespace |-> "", fields |-> << >>]

\* An extprocv3.ProcessingResponse; kind "none" is the nil response.
NoReply ==
    [ kind |-> "none", response |-> "nil", headerMutation |-> NilMutation,
      bodyMutation |-> "nil", clearRouteCache |-> FALSE, modeOverride |-> "nil",
      dynamicMetadata |-> NilMetadata, status |-> 0, body |-> "" ]

NoEval == [called |-> FALSE, model |-> "", backend |-> "",
           costs |-> LLMTokenUsage(U32Zero, U32Zero, U32Zero)]

\* ------------------------------------------------------- handler outcomes

\* What a handler leaves behind: the processor and the sink after it, what it
\* returned (reply, err) or that it panicked, and the calls it made:
\* completions, tokenUsage, tokenLatency, setBackend are the metric calls in order;
\* routed the header map the router got and route its answer; parsed the parsed
\* request; chosen the backend bound and selected the selected-backend header
\* value; authCalls the auth handlers run; evals the evaluator results used, by
\* rule index, and eval the evaluator's arguments; accumulated the usage added;
\* translated and contributed the headers the translator and the selector gave
\* to a request body that succeeded.
Outcome(cc, mm) ==
    [ c |-> cc, metrics |-> mm, err |-> "nil", panic |-> FALSE, reply |-> NoReply,
      completions |-> << >>, tokenUsage |-> << >>, tokenLatency |-> << >>,
      setBackend |-> << >>, routed |-> << >>, route |-> "none", parsed |-> << >>,
      chosen |-> << >>, selected |-> << >>, authCalls |-> << >>, evals |-> << >>,
      eval |-> NoEval, accumulated |-> << >>, translated |-> << >>,
      contributed |-> << >> ]

\* The deferred function of ProcessRequestBody and ProcessResponseHeaders: it
\* reads the named result err when the handler returns.
DeferRecordFailure(err) == IF err /= "nil" THEN <<FALSE>> ELSE << >>

\* Variant: the deferred function records a success whatever the handler returns.
DeferRecordCompletionSuccess(err) == <<TRUE>>

\* The deferred function of ProcessResponseBody.
DeferRecordCompletion(err) == <<err = "nil">>

\* `return nil, fmt.Errorf(...)` in a handler whose deferred function is
\* DeferRecordFailure.
Fail(o, msg) ==
    [o EXCEPT !.err = msg, !.reply = NoReply,
              !.completions = @ \o DeferRecordFailure(msg)]

\* parseOpenAIChatCompletionBody: json.Unmarshal into the request, then its Model.
parseOpenAIChatCompletionBody(body) ==
    IF body.json
    THEN [err |-> FALSE, modelName |-> body.Model,
          rb |-> [Model |-> body.Model, Stream |-> body.Stream]]
    ELSE [err |-> TRUE, modelName |-> "", rb |-> [Model |-> "", Stream |-> FALSE]]

\* selectTranslator: keeps a translator that is already bound.
selectTranslator(cc, out) ==
    IF cc.translator /= "nil"
    THEN [c |-> cc, err |-> FALSE]
    ELSE IF out \in {APISchemaOpenAI, APISchemaAWSBedrock, APISchemaAzureOpenAI}
         THEN [c |-> [cc EXCEPT !.translator = out], err |-> FALSE]
         ELSE [c |-> cc, err |-> TRUE]

\* ProcessRequestHeaders.
RequestHeadersOutcome(cc, mm) ==
    [Outcome(cc, [mm EXCEPT !.started = TRUE]) EXCEPT
        !.reply = [NoReply EXCEPT !.kind = "RequestHeaders"]]

\* The immediate response of the no-matching-rule branch.
ImmediateNotFound(msg) ==
    [NoReply EXCEPT !.kind = "ImmediateResponse", !.status = 404, !.body = msg]

\* Variant: the branch returns the router's error beside the response, so the
\* deferred function records the failure a second time.
NoMatchOutcomeErrReturned(o, msg) ==
    [o EXCEPT !.completions = (@ \o <<FALSE>>) \o DeferRecordFailure(msg),
              !.reply = ImmediateNotFound(msg)]

\* The no-matching-rule branch: records the failure itself and returns a nil error.
NoMatchOutcome(o, msg) ==
    [o EXCEPT !.completions = (@ \o <<FALSE>>) \o DeferRecordFailure("nil"),
              !.reply = ImmediateNotFound(msg)]

\* authHandler.Do on success: the handler adds its credential header.
AuthMutation(hm) == [hm EXCEPT !.SetHeaders = Append(@, <<"authorization", "credential">>)]

\* Variant: the selector's headers are appended before the two routing headers.
AppendRoutingHeadersSelectorFirst(headerMutation, model, selectedBackendHeaderValue, headers) ==
    LET hm0 == IF headerMutation.nil THEN HeaderMutation(<< >>) ELSE headerMutation
    IN  [hm0 EXCEPT !.SetHeaders =
            (@ \o headers)
               \o << <<modelNameHeaderKey, model>>,
                      <<selectedBackendHeaderKey, selectedBackendHeaderValue>> >>]

\* Lines 159-169: an empty mutation for a nil one, then the model-name and
\* selected-backend headers and the selector's headers appended to it.
AppendRoutingHeaders(headerMutation, model, selectedBackendHeaderValue, headers) ==
    LET hm0 == IF headerMutation.nil THEN HeaderMutation(<< >>) ELSE headerMutation
    IN  [hm0 EXCEPT !.SetHeaders =
            (@ \o << <<modelNameHeaderKey, model>>,
                      <<selectedBackendHeaderKey, selectedBackendHeaderValue>> >>)
               \o headers]

\* ProcessRequestBody from the selected backend on (lines 147-189).
RequestBodyRouted(o, model, body, b, selectedBackendHeaderValue, headers, treq, auth) ==
    LET o1 == [o EXCEPT !.metrics.backend = b.Name,
                        !.setBackend = Append(@, b.Name),
                        !.chosen = <<b>>,
                        !.selected = <<selectedBackendHeaderValue>>]
        st == selectTranslator(o1.c, b.Schema)
        o2 == [o1 EXCEPT !.c = st.c]
        hm1 == AppendRoutingHeaders(treq.headerMutation, model,
                                    selectedBackendHeaderValue, headers)
        hasAuth == b.Name \in backendAuthHandlers
        o3 == IF hasAuth THEN [o2 EXCEPT !.authCalls = Append(@, b.Name)] ELSE o2
        hm2 == IF hasAuth THEN AuthMutation(hm1) ELSE hm1
    IN  IF st.err THEN Fail(o1, "failed to select translator")
        ELSE IF treq.err THEN Fail(o2, "failed to transform request")
        ELSE IF hasAuth /\ auth /= "nil" THEN Fail(o3, "failed to do auth request")
        ELSE [o3 EXCEPT
                !.c.stream = body.Stream,
                !.translated = treq.headerMutation.SetHeaders,
                !.contributed = headers,
                !.reply = [NoReply EXCEPT
                             !.kind = "RequestBody", !.response = "set",
                             !.headerMutation = hm2,
                             !.bodyMutation = treq.bodyMutation,
                             !.clearRouteCache = TRUE]]

\* Variant: a model-name header the client sent is kept.
SetModelHeaderIfAbsent(requestHeaders, model) ==
    IF requestHeaders[modelNameHeaderKey] /= "" THEN requestHeaders
    ELSE [requestHeaders EXCEPT ![modelNameHeaderKey] = model]

\* c.requestHeaders[c.config.modelNameHeaderKey] = model (line 110).
SetModelHeader(requestHeaders, model) ==
    [requestHeaders EXCEPT ![modelNameHeaderKey] = model]

\* ProcessRequestBody.
RequestBodyOutcome(cc, mm, rawBody, route, sel, treq, auth) ==
    LET p == parseOpenAIChatCompletionBody(rawBody)
        model == p.modelName
        c1 == [cc EXCEPT !.requestHeaders = SetModelHeader(@, model)]
        o1 == [Outcome(c1, [mm EXCEPT !.model = model]) EXCEPT
                  !.parsed = <<p.rb>>,
                  !.routed = <<c1.requestHeaders>>,
                  !.route = IF route.err = "nil" THEN route.b.Name ELSE route.err]
        o2 == [o1 EXCEPT !.c.dynamicLB = route.b.DynamicLoadBalancing]
    IN  IF p.err THEN Fail(Outcome(cc, mm), "failed to parse request body")
        ELSE IF route.err = ErrNoMatchingRule THEN NoMatchOutcome(o1, route.err)
        ELSE IF route.err /= "nil" THEN Fail(o1, "failed to calculate route")
        ELSE IF o2.c.dynamicLB = "nil"
             THEN RequestBodyRouted(o2, model, p.rb, route.b, route.b.Name, << >>, treq, auth)
        ELSE IF o2.c.dynamicLB \notin dynamicLoadBalancers
             THEN [o2 EXCEPT !.panic = TRUE]
        ELSE IF sel.err THEN Fail(o2, "failed to select endpoint")
        ELSE RequestBodyRouted(o2, model, p.rb, sel.b, "original_destination_cluster",
                               sel.headers, treq, auth)

\* headersToMap, then the content-encoding the processor remembers.
RememberEncoding(cc, headers) ==
    [cc EXCEPT !.responseHeaders = headers,
               !.responseEncoding =
                   IF headers["content-encoding"] /= "" THEN headers["content-encoding"] ELSE @]

\* Variant: the status is not looked at.
ModeOverrideAnyStatus(stream, status) == IF stream THEN "STREAMED" ELSE "nil"

\* The processing mode ProcessResponseHeaders asks for (lines 218-222).
ModeOverride(stream, status) == IF stream /\ status = "200" THEN "STREAMED" ELSE "nil"

\* ProcessResponseHeaders.
ResponseHeadersOutcome(cc, mm, headers, tres) ==
    LET c1 == RememberEncoding(cc, headers)
        o1 == Outcome(c1, mm)
    IN  IF c1.translator = "nil"
        THEN [o1 EXCEPT !.reply = [NoReply EXCEPT !.kind = "ResponseHeaders"]]
        ELSE IF tres.err THEN Fail(o1, "failed to transform response headers")
        ELSE [o1 EXCEPT
                !.reply = [NoReply EXCEPT
                             !.kind = "ResponseHeaders", !.response = "set",
                             !.headerMutation = tres.headerMutation,
                             !.modeOverride = ModeOverride(c1.stream, c1.responseHeaders[":status"])]]

\* gzip.NewReader reads the member header at once: it fails unless the bytes begin one.
GzipNewReader(bytes) == [err |-> bytes /= BodyGzipHead]

\* metadata[key] = value on a Go map.
MapPut(f, k, v) == [x \in (DOMAIN f) \cup {k} |-> IF x = k THEN v ELSE f[x]]

\* float64(cost) of a uint32: every uint32 is a float64, so the number is kept.
NumberValue(cost) == cost

\* The uint32 a cost expression's uint64 result is stored as (line 322).
CostOfU64(costU64) == U32OfU64(costU64)

\* The loop of maybeBuildDynamicMetadata from rule i on; evaluated lists the
\* expression rules whose program was run.
RECURSIVE BuildMetadata(_, _, _, _, _, _)
BuildMetadata(cc, rules, evals, i, metadata, evaluated) ==
    IF i > Len(rules)
    THEN [err |-> "nil", metadata |-> metadata, evaluated |-> evaluated]
    ELSE LET rc == rules[i]
             next(cost, ev) ==
                 BuildMetadata(cc, rules, evals, i + 1,
                               MapPut(metadata, rc.MetadataKey, NumberValue(cost)), ev)
         IN  CASE rc.Type = LLMRequestCostTypeInputToken -> next(cc.costs.InputTokens, evaluated)
               [] rc.Type = LLMRequestCostTypeOutputToken -> next(cc.costs.OutputTokens, evaluated)
               [] rc.Type = LLMRequestCostTypeTotalToken -> next(cc.costs.TotalTokens, evaluated)
               [] rc.Type = LLMRequestCostTypeCEL ->
                    IF evals[i].err
                    THEN [err |-> "failed to evaluate CEL expression", metadata |-> << >>,
                          evaluated |-> Append(evaluated, i)]
                    ELSE next(CostOfU64(evals[i].value), Append(evaluated, i))
               [] OTHER ->
                    [err |-> "unknown request cost kind", metadata |-> << >>,
                     evaluated |-> evaluated]

\* The arguments every EvaluateProgram call of one maybeBuildDynamicMetadata gets.
EvalArguments(cc) ==
    [ called |-> TRUE,
      model |-> cc.requestHeaders[modelNameHeaderKey],
      backend |-> cc.requestHeaders[selectedBackendHeaderKey],
      costs |-> cc.costs ]

\* maybeBuildDynamicMetadata.
maybeBuildDynamicMetadata(cc, rules, evals) ==
    LET r == BuildMetadata(cc, rules, evals, 1, << >>, << >>)
    IN  [ err |-> r.err,
          evaluated |-> r.evaluated,
          struct |-> IF r.err /= "nil" \/ DOMAIN r.metadata = {}
                     THEN NilMetadata
                     ELSE [nil |-> FALSE, namespace |-> metadataNamespace,
                           fields |-> r.metadata] ]

\* `return nil, fmt.Errorf(...)` in ProcessResponseBody.
FailBody(o, msg) ==
    [o EXCEPT !.err = msg, !.reply = NoReply,
              !.completions = @ \o DeferRecordCompletion(msg)]

\* c.costs += tokenUsage (lines 268-270).
Accumulate(costs, tokenUsage) ==
    LLMTokenUsage(U32Add(costs.InputTokens, tokenUsage.InputTokens),
                  U32Add(costs.OutputTokens, tokenUsage.OutputTokens),
                  U32Add(costs.TotalTokens, tokenUsage.TotalTokens))

\* ProcessResponseBody from the translator's answer on (lines 256-287).
ResponseBodyTranslated(o, rules, endOfStream, tres, evals) ==
    LET u == tres.tokenUsage
        o1 == [o EXCEPT
                 !.c.costs = Accumulate(@, u),
                 !.accumulated = <<u>>,
                 !.tokenUsage = <<u>>,
                 !.tokenLatency = IF o.c.stream THEN <<u.OutputTokens>> ELSE << >>,
                 !.reply = [NoReply EXCEPT
                              !.kind = "ResponseBody", !.response = "set",
                              !.headerMutation = tres.headerMutation,
                              !.bodyMutation = tres.bodyMutation]]
        md == maybeBuildDynamicMetadata(o1.c, rules, evals)
        o2 == [o1 EXCEPT
                 !.evals = [i \in {md.evaluated[k] : k \in 1..Len(md.evaluated)} |-> evals[i]],
                 !.eval = IF md.evaluated /= << >> THEN EvalArguments(o1.c) ELSE NoEval]
    IN  IF endOfStream /\ Len(rules) > 0
        THEN IF md.err /= "nil"
             THEN FailBody(o2, "failed to build dynamic metadata")
             ELSE [o2 EXCEPT !.reply.dynamicMetadata = md.struct,
                             !.completions = @ \o DeferRecordCompletion("nil")]
        ELSE [o1 EXCEPT !.completions = @ \o DeferRecordCompletion("nil")]

\* Variant: the translator's answer is used without asking whether one is bound.
ResponseBodyOutcomeNoNilCheck(cc, mm, rules, body, tres, evals) ==
    LET o == Outcome(cc, mm)
    IN  IF cc.responseEncoding = "gzip" /\ GzipNewReader(body.Body).err
        THEN FailBody(o, "failed to decode gzip")
        ELSE IF tres.err THEN FailBody(o, "failed to transform response")
        ELSE ResponseBodyTranslated(o, rules, body.EndOfStream, tres, evals)

\* ProcessResponseBody.
ResponseBodyOutcome(cc, mm, rules, body, tres, evals) ==
    LET o == Outcome(cc, mm)
    IN  IF cc.responseEncoding = "gzip" /\ GzipNewReader(body.Body).err
        THEN FailBody(o, "failed to decode gzip")
        ELSE IF cc.translator = "nil"
        THEN [o EXCEPT !.reply = [NoReply EXCEPT !.kind = "ResponseBody"],
                       !.completions = @ \o DeferRecordCompletion("nil")]
        ELSE IF tres.err THEN FailBody(o, "failed to transform response")
        ELSE ResponseBodyTranslated(o, rules, body.EndOfStream, tres, evals)

\* ------------------------------------------------------------ the stream

Events == <<"RequestHeaders", "RequestBody", "ResponseHeaders", "ResponseBody">>

\* The place of an event, and of the reply to it, in the order of one exchange.
Rank(ev) == CHOOSE i \in 1..Len(Events) : Events[i] = ev

\* The phase diagram of the design: whether it allows an event in a phase, and the
\* phase after the event (res: how the handler ended).
Allowed(phase, ev) ==
    \/ phase = "Start" /\ ev = "RequestHeaders"
    \/ phase = "HeadersSeen" /\ ev = "RequestBody"
    \/ phase = "Routed" /\ ev = "ResponseHeaders"
    \/ phase = "RespHeadersSeen" /\ ev = "ResponseBody"

PhaseAfter(phase, ev, res, eos) ==
    IF ~Allowed(phase, ev) \/ res /= "ok" THEN "Closed"
    ELSE CASE ev = "RequestHeaders" -> "HeadersSeen"
           [] ev = "RequestBody" -> "Routed"
           [] ev = "ResponseHeaders" -> "RespHeadersSeen"
           [] OTHER -> IF eos THEN "Closed" ELSE phase

\* How a handler ended, as the server loop sees it.
ResultOf(o) ==
    IF o.panic THEN "panic"
    ELSE IF o.err /= "nil" THEN "err"
    ELSE IF o.reply.kind = "ImmediateResponse" THEN "immediate"
    ELSE "ok"

NoMetrics == [started |-> FALSE, model |-> "", backend |-> ""]

NoRequest == [ok |-> FALSE, model |-> "", stream |-> FALSE, selectedBackend |-> ""]

\* What a stream has set on the sink after a handler: SetModel is called once the
\* body parsed, SetBackend as often as the outcome lists.
OwnAfter(own, o) ==
    [ model |-> IF o.parsed /= << >> THEN o.parsed[1].Model ELSE own.model,
      backend |-> IF o.setBackend /= << >> THEN o.setBackend[Len(o.setBackend)]
                  ELSE own.backend ]

NoLast ==
    [ stream |-> 1, event |-> "none", endOfStream |-> FALSE, body |-> "", allowed |-> TRUE,
      costsBefore |-> LLMTokenUsage(U32Zero, U32Zero, U32Zero),
      emittedBefore |-> [k \in 1..Len(Events) |-> 0],
      out |-> Outcome(NewProcessor([k \in HeaderKeys |-> ""]), NoMetrics) ]

Init ==
    /\ config \in [schema : InboundSchemas, requestCosts : RequestCostConfigs]
    /\ \E v \in ClientHeaderValues :
       LET requestHeaders == [k \in HeaderKeys |-> v]
           made == ChatCompletionProcessorFactory(config, requestHeaders)
           other == ChatCompletionProcessorFactory(config, [k \in HeaderKeys |-> ""])
       IN  /\ c = made.processor
           /\ metrics = NoMetrics
           /\ last = [NoLast EXCEPT !.out.err = made.err]
           /\ ghost =
                  [ events |-> 0,           \* events handled
                    delivered |-> 0,        \* rank of the last event
                    bodies |-> 0,           \* response-body events handled
                    closed |-> made.err /= "nil",  \* no processor, or a handler failed,
                                                  \* panicked or answered at once
                    final |-> FALSE,        \* a response body with end_of_stream was handled
                    phase |-> "Start",      \* the phase of the diagram
                    emitted |-> [k \in 1..Len(Events) |-> 0],  \* replies sent, by rank
                    finals |-> 0,           \* replies to a response body with end_of_stream
                    sums |-> [k \in TokenKinds |-> <<0, 0, 0>>],  \* exact sums of the deltas
                    setBackendCalls |-> 0,
                    translatorsBound |-> 0,
                    completions |-> 0,      \* RecordRequestCompletion calls
                    request |-> NoRequest,  \* the last request body whose handler succeeded
                    client |-> requestHeaders,  \* the headers the client sent
                    own |-> [model |-> "", backend |-> ""] ]  \* what the stream set on the sink
           /\ peer = [ c |-> other.processor, events |-> 0, closed |-> other.err /= "nil",
                       own |-> [model |-> "", backend |-> ""] ]

\* The server loop ends a stream whose handler returned an error or an immediate
\* response (and a panic ends the process), and a stream it got no processor for:
\* no event follows.
Running == ~ghost.closed

\* Events in any order, as many as the bound allows.
AnyOrder(ev) == ghost.events < MaxEvents

\* The order the proxy keeps: request headers first, then each later kind of event
\* at most once and in order, response bodies repeated until end_of_stream.
InOrder(ev) ==
    /\ ~ghost.final
    /\ ghost.bodies < MaxBodies
    /\ IF ghost.delivered = 0 THEN ev = "RequestHeaders"
       ELSE \/ Rank(ev) > ghost.delivered
            \/ ev = "ResponseBody" /\ ghost.delivered = Rank("ResponseBody")

\* One event handled: the handler's outcome becomes the state.
Handle(ev, eos, body, o) ==
    LET res == ResultOf(o)
        sent == res = "ok"
    IN  /\ c' = o.c
        /\ metrics' = o.metrics
        /\ last' = [ stream |-> 1, event |-> ev, endOfStream |-> eos, body |-> body,
                     allowed |-> Allowed(ghost.phase, ev),
                     costsBefore |-> c.costs,
                     emittedBefore |-> ghost.emitted,
                     out |-> o ]
        /\ ghost' = [ghost EXCEPT
                        !.events = @ + 1,
                        !.delivered = Rank(ev),
                        !.bodies = @ + (IF ev = "ResponseBody" THEN 1 ELSE 0),
                        !.closed = res /= "ok",
                        !.final = @ \/ (ev = "ResponseBody" /\ eos),
                        !.phase = PhaseAfter(@, ev, res, eos),
                        !.emitted[Rank(ev)] = @ + (IF sent THEN 1 ELSE 0),
                        !.finals = @ + (IF sent /\ ev = "ResponseBody" /\ eos THEN 1 ELSE 0),
                        !.sums = [k \in TokenKinds |->
                                     IF o.accumulated = << >> THEN @[k]
                                     ELSE NatAdd(@[k], o.accumulated[1][k])],
                        !.setBackendCalls = @ + Len(o.setBackend),
                        !.request =
                            IF o.reply.kind = "RequestBody"
                            THEN [ok |-> TRUE, model |-> o.parsed[1].Model,
                                  stream |-> o.parsed[1].Stream,
                                  selectedBackend |-> o.selected[1]]
                            ELSE @,
                        !.translatorsBound =
                            @ + (IF c.translator = "nil" /\ o.c.translator /= "nil"
                                 THEN 1 ELSE 0),
                        !.completions = @ + Len(o.completions),
                        !.own = OwnAfter(@, o)]
        /\ UNCHANGED <<config, peer>>

\* ---- inputs a handler does not reach take one value

OkRequest == CHOOSE r \in TranslatorRequestResults : ~r.err /\ r.headerMutation.nil
ErrSelector == CHOOSE r \in SelectorResults : r.err
ErrRoute == CHOOSE r \in RouterResults : r.err = "router failure"
ErrResponseHeaders == CHOOSE r \in TranslatorResponseHeadersResults : r.err
ErrResponseBody == CHOOSE r \in TranslatorResponseBodyResults : r.err

\* The handler asks the router: the body parsed.
AsksRouter(rawBody) == ~parseOpenAIChatCompletionBody(rawBody).err

\* The handler asks the selector: with the selector failing, that is the error.
AsksSelector(rawBody, route) ==
    RequestBodyOutcome(c, metrics, rawBody, route, ErrSelector, OkRequest, "nil").err
        = "failed to select endpoint"

\* The handler asks the translator: with it and the auth handler succeeding, it succeeds.
AsksTranslator(rawBody, route, sel) ==
    RequestBodyOutcome(c, metrics, rawBody, route, sel, OkRequest, "nil").reply.kind
        = "RequestBody"

\* The handler asks an auth handler.
AsksAuth(rawBody, route, sel, treq) ==
    RequestBodyOutcome(c, metrics, rawBody, route, sel, treq, "nil").authCalls /= << >>

RequestHeadersEvent(ok) ==
    /\ Running /\ ok
    /\ Handle("RequestHeaders", FALSE, "", RequestHeadersOutcome(c, metrics))

RequestBodyEvent(ok) ==
    /\ Running /\ ok
    /\ \E rawBody \in RequestBodies :
       \E route \in (IF AsksRouter(rawBody) THEN RouterResults ELSE {ErrRoute}) :
       \E sel \in (IF AsksSelector(rawBody, route) THEN SelectorResults ELSE {ErrSelector}) :
       \E treq \in (IF AsksTranslator(rawBody, route, sel)
                    THEN TranslatorRequestResults ELSE {OkRequest}) :
       \E auth \in (IF AsksAuth(rawBody, route, sel, treq) THEN AuthResults ELSE {"nil"}) :
           Handle("RequestBody", TRUE, "",
                  RequestBodyOutcome(c, metrics, rawBody, route, sel, treq, auth))

ResponseHeadersEvent(ok) ==
    /\ Running /\ ok
    /\ \E status \in Statuses, enc \in ContentEncodings :
       LET headers == [k \in {":status", "content-encoding"} |->
                          IF k = ":status" THEN status ELSE enc]
       IN  \E tres \in (IF ResponseHeadersOutcome(c, metrics, headers, ErrResponseHeaders).err
                            /= "nil"
                        THEN TranslatorResponseHeadersResults ELSE {ErrResponseHeaders}) :
               Handle("ResponseHeaders", FALSE, "",
                      ResponseHeadersOutcome(c, metrics, headers, tres))

\* The indexes of the expression rules, and an evaluator that always answers 23.
CELRules(rules) == {i \in 1..Len(rules) : rules[i].Type = LLMRequestCostTypeCEL}
OkEvals(rules) == [i \in CELRules(rules) |-> [err |-> FALSE, value |-> <<0, 0, 0, 23>>]]

ResponseBodyEvent(ok) ==
    /\ Running /\ ok
    /\ \E bytes \in ResponseBodies, eos \in BOOLEAN :
       LET body == [Body |-> bytes, EndOfStream |-> eos]
           rules == config.requestCosts
           Out(tres, evals) == ResponseBodyOutcome(c, metrics, rules, body, tres, evals)
       IN  \E tres \in (IF Out(ErrResponseBody, OkEvals(rules)).err
                            = "failed to transform response"
                        THEN TranslatorResponseBodyResults ELSE {ErrResponseBody}) :
           \E evals \in (IF Out(tres, OkEvals(rules)).eval.called
                         THEN [CELRules(rules) -> EvalResults] ELSE {OkEvals(rules)}) :
               Handle("ResponseBody", eos, bytes, Out(tres, evals))

\* ---- any sequence of events: what the handlers accept from whoever calls them

ProcessRequestHeaders == RequestHeadersEvent(AnyOrder("RequestHeaders"))
ProcessRequestBody == RequestBodyEvent(AnyOrder("RequestBody"))
ProcessResponseHeaders == ResponseHeadersEvent(AnyOrder("ResponseHeaders"))
ProcessResponseBody == ResponseBodyEvent(AnyOrder("ResponseBody"))

Next ==
    \/ ProcessRequestHeaders
    \/ ProcessRequestBody
    \/ ProcessResponseHeaders
    \/ ProcessResponseBody

Spec == Init /\ [][Next]_vars

\* ---- the events of one exchange in the proxy's order

ProxyRequestHeaders == RequestHeadersEvent(InOrder("RequestHeaders"))
ProxyRequestBody == RequestBodyEvent(InOrder("RequestBody"))
ProxyResponseHeaders == ResponseHeadersEvent(InOrder("ResponseHeaders"))
ProxyResponseBody == ResponseBodyEvent(InOrder("ResponseBody"))

NextOrdered ==
    \/ ProxyRequestHeaders
    \/ ProxyRequestBody
    \/ ProxyResponseHeaders
    \/ ProxyResponseBody

SpecOrdered == Init /\ [][NextOrdered]_vars

\* ---- two streams of one factory: both processors hold the same sink

\* A panic in either stream ends the process.
Alive == ~last.out.panic

\* One event of the second stream handled: its processor and the shared sink change.
HandlePeer(ev, eos, body, o) ==
    /\ peer' = [ c |-> o.c, events |-> peer.events + 1,
                 closed |-> ResultOf(o) /= "ok",
                 own |-> OwnAfter(peer.own, o) ]
    /\ metrics' = o.metrics
    /\ last' = [ stream |-> 2, event |-> ev, endOfStream |-> eos, body |-> body,
                 allowed |-> TRUE,
                 costsBefore |-> peer.c.costs,
                 emittedBefore |-> ghost.emitted,
                 out |-> o ]
    /\ UNCHANGED <<config, c, ghost>>

PeerRunning == Alive /\ ~peer.closed /\ peer.events < MaxStreamEvents

\* The second stream's requests are not streamed; its router fails or chooses the
\* aws-bedrock backend, and its translators succeed whenever they are asked.
PeerRequestBodies == [json : {TRUE}, Model : PeerModels, Stream : {FALSE}]
PeerRouterResults ==
    {r \in RouterResults : r.err = "router failure" \/ r.b.Name = "aws-bedrock"}
PeerResponseHeaders ==
    [k \in {":status", "content-encoding"} |-> IF k = ":status" THEN "200" ELSE ""]
PeerTranslatorResponseHeaders ==
    CHOOSE r \in TranslatorResponseHeadersResults : ~r.err /\ r.headerMutation.nil
PeerTranslatorResponseBody ==
    CHOOSE r \in TranslatorResponseBodyResults :
        ~r.err /\ r.tokenUsage = LLMTokenUsage(U32(0, 10), U32(0, 3), U32(0, 13))

PeerProcessRequestHeaders ==
    /\ PeerRunning
    /\ HandlePeer("RequestHeaders", FALSE, "", RequestHeadersOutcome(peer.c, metrics))

PeerProcessRequestBody ==
    /\ PeerRunning
    /\ \E rawBody \in PeerRequestBodies, route \in PeerRouterResults :
           HandlePeer("RequestBody", TRUE, "",
                      RequestBodyOutcome(peer.c, metrics, rawBody, route, ErrSelector,
                                         OkRequest, "nil"))

PeerProcessResponseHeaders ==
    /\ PeerRunning
    /\ HandlePeer("ResponseHeaders", FALSE, "",
                  ResponseHeadersOutcome(peer.c, metrics, PeerResponseHeaders,
                                         PeerTranslatorResponseHeaders))

PeerProcessResponseBody ==
    /\ PeerRunning
    /\ \E eos \in BOOLEAN :
           HandlePeer("ResponseBody", eos, BodyOther,
                      ResponseBodyOutcome(peer.c, metrics, config.requestCosts,
                                          [Body |-> BodyOther, EndOfStream |-> eos],
                                          PeerTranslatorResponseBody,
                                          OkEvals(config.requestCosts)))

Concurrent(ev) == Alive /\ ghost.events < MaxStreamEvents

StreamRequestHeaders == RequestHeadersEvent(Concurrent("RequestHeaders"))
StreamRequestBody == RequestBodyEvent(Concurrent("RequestBody"))
StreamResponseHeaders == ResponseHeadersEvent(Concurrent("ResponseHeaders"))
StreamResponseBody == ResponseBodyEvent(Concurrent("ResponseBody"))

NextStreams ==
    \/ StreamRequestHeaders
    \/ StreamRequestBody
    \/ StreamResponseHeaders
    \/ StreamResponseBody
    \/ PeerProcessRequestHeaders
    \/ PeerProcessRequestBody
    \/ PeerProcessResponseHeaders
    \/ PeerProcessResponseBody

SpecStreams == Init /\ [][NextStreams]_vars

\* -------------------------------------------------------------- properties

Replied == last.event /= "none" /\ last.out.reply.kind /= "none"
ResponseEvent == last.event \in {"ResponseHeaders", "ResponseBody"}

\* A reply that changes the response: a header mutation, a body mutation or metadata.
MutationEmitted(r) ==
    ~r.headerMutation.nil \/ r.bodyMutation /= "nil" \/ ~r.dynamicMetadata.nil

\* The uint32 nearest to a uint64 from below: the value, or 2^32-1 above the range.
ClampU64(v) == IF U64FitsU32(v) THEN U32OfU64(v) ELSE U32Max

\* A uint32 and a uint64 that are the same number.
SameNumber(u, v) == v = <<0, 0, u[1], u[2]>>

\* C1: an event the phase diagram does not allow in the current phase makes its
\* handler return an error and no reply.
C1_OutOfOrderIsFatal ==
    (last.event /= "none" /\ ~last.allowed)
        => (last.out.err /= "nil" /\ last.out.reply.kind = "none")

\* C2: the replies of one stream come in non-decreasing phase order, with at most
\* one request-headers reply, one response-headers reply and one reply to a
\* response body with end_of_stream.
C2_RepliesInPhaseOrder ==
    /\ ghost.emitted[Rank("RequestHeaders")] <= 1
    /\ ghost.emitted[Rank("ResponseHeaders")] <= 1
    /\ ghost.finals <= 1
    /\ (Replied /\ last.out.reply.kind /= "ImmediateResponse")
           => \A k \in 1..Len(Events) : k > Rank(last.event) => last.emittedBefore[k] = 0

\* C3: a response mutation is emitted only with one translator bound and one backend
\* recorded by SetBackend; a response event handled with no translator bound emits
\* no mutation and accounts no tokens.
C3_BoundBeforeResponseMutation ==
    /\ (ResponseEvent /\ MutationEmitted(last.out.reply))
           => /\ c.translator /= "nil"
              /\ ghost.translatorsBound = 1
              /\ ghost.setBackendCalls = 1
              /\ metrics.backend /= ""
    /\ (ResponseEvent /\ c.translator = "nil")
           => /\ ~MutationEmitted(last.out.reply)
              /\ last.out.tokenUsage = << >>
              /\ last.out.tokenLatency = << >>
              /\ c.costs = last.costsBefore

C3_Witness ==
    /\ last.event = "ResponseBody"
    /\ last.out.reply.bodyMutation /= "nil"
    /\ ghost.setBackendCalls = 1
    /\ ghost.request.ok

\* C4: after a response-body event every token counter is at least what it was
\* before the event and equals the exact sum of the deltas so far.
C4_TokenTotalsAreSums ==
    last.event = "ResponseBody"
        => \A k \in TokenKinds :
               /\ U32Leq(last.costsBefore[k], c.costs[k])
               /\ NatOfU32(c.costs[k]) = ghost.sums[k]

\* C5: when the router finds no matching rule the reply is an immediate 404 with
\* the router's explanation, the failure is recorded once, and no backend,
\* translator or selector handle is bound and the stream flag is left alone.
C5_NoMatch ==
    [][ (ghost'.events = ghost.events + 1 /\ last'.event = "RequestBody"
            /\ last'.out.route = ErrNoMatchingRule)
        => /\ last'.out.err = "nil"
           /\ last'.out.reply.kind = "ImmediateResponse"
           /\ last'.out.reply.status = 404
           /\ last'.out.reply.body = ErrNoMatchingRule
           /\ last'.out.completions = <<FALSE>>
           /\ last'.out.setBackend = << >>
           /\ metrics'.backend = metrics.backend
           /\ c'.translator = c.translator
           /\ c'.dynamicLB = c.dynamicLB
           /\ c'.stream = c.stream ]_vars

C5_Witness ==
    /\ last.event = "RequestBody"
    /\ last.out.route = ErrNoMatchingRule
    /\ last.out.reply.status = 404
    /\ last.out.completions = <<FALSE>>

\* C6: a cost expression that fails on the final response body is not fatal: the
\* body reply is returned, the metadata lacks only the failing rules' keys, and the
\* request is recorded as a success.
C6_EvaluateFailureIsNotFatal ==
    LET rules == config.requestCosts
        failing == {i \in DOMAIN last.out.evals : last.out.evals[i].err}
        kept == {rules[i].MetadataKey : i \in (1..Len(rules)) \ failing}
        md == last.out.reply.dynamicMetadata
    IN  (last.event = "ResponseBody" /\ last.endOfStream /\ failing /= {})
            => /\ last.out.err = "nil"
               /\ last.out.reply.kind = "ResponseBody"
               /\ last.out.completions = <<TRUE>>
               /\ IF kept = {} THEN md.nil ELSE ~md.nil /\ DOMAIN md.fields = kept

\* C7: the cost written for an expression rule is the evaluated value, or 2^32-1
\* when the value is above it.
C7_CostIsClamped ==
    LET rules == config.requestCosts
        md == last.out.reply.dynamicMetadata
    IN  (last.event = "ResponseBody" /\ ~md.nil)
            => \A i \in DOMAIN last.out.evals :
                   md.fields[rules[i].MetadataKey] = ClampU64(last.out.evals[i].value)

\* C8: a response-body reply carries dynamic metadata exactly when the event ends
\* the stream, cost rules are configured and a translator is bound; it then holds,
\* under the namespace, one entry per rule: the accumulated count of the rule's
\* token kind, or the evaluator's result.
C8_DynamicMetadata ==
    LET rules == config.requestCosts
        md == last.out.reply.dynamicMetadata
        expected(i) ==
            CASE rules[i].Type = LLMRequestCostTypeInputToken -> md.fields[rules[i].MetadataKey] = c.costs.InputTokens
              [] rules[i].Type = LLMRequestCostTypeOutputToken -> md.fields[rules[i].MetadataKey] = c.costs.OutputTokens
              [] rules[i].Type = LLMRequestCostTypeTotalToken -> md.fields[rules[i].MetadataKey] = c.costs.TotalTokens
              [] OTHER -> /\ i \in DOMAIN last.out.evals
                          /\ SameNumber(md.fields[rules[i].MetadataKey], last.out.evals[i].value)
    IN  /\ (Replied /\ last.event /= "ResponseBody") => md.nil
        /\ (Replied /\ last.event = "ResponseBody")
               => /\ ~md.nil <=> (last.endOfStream /\ Len(rules) > 0 /\ c.translator /= "nil")
                  /\ ~md.nil => /\ md.namespace = metadataNamespace
                                /\ DOMAIN md.fields = {rules[i].MetadataKey : i \in 1..Len(rules)}
                                /\ \A i \in 1..Len(rules) : expected(i)

\* C9: the evaluator is given the model parsed from the stream's request body and,
\* as backend, the selected-backend header value the request-body phase chose.
C9_EvaluatorArguments ==
    last.out.eval.called
        => /\ ghost.request.ok
           /\ last.out.eval.model = ghost.request.model
           /\ last.out.eval.backend = ghost.request.selectedBackend

\* C10: the reply to response headers asks for STREAMED exactly when the request
\* body that succeeded had stream=true and :status is 200; no other reply carries
\* a mode override.
C10_ModeOverride ==
    /\ (Replied /\ last.event = "ResponseHeaders")
           => (last.out.reply.modeOverride = "STREAMED"
                  <=> (ghost.request.ok /\ ghost.request.stream
                          /\ c.responseHeaders[":status"] = "200"))
    /\ (last.event /= "ResponseHeaders" \/ ~ghost.request.ok)
           => last.out.reply.modeOverride = "nil"

C10_Witness ==
    /\ last.event = "ResponseHeaders"
    /\ last.out.reply.modeOverride = "STREAMED"
    /\ ghost.request.stream

\* The part of a sequence from index a to index b.
Slice(s, a, b) == [i \in 1..(b - a + 1) |-> s[a + i - 1]]

\* C11: a request-body reply clears the route cache and its header mutation is the
\* translator's headers, then the model-name header with the parsed model and the
\* selected-backend header (the router's backend name, or the literal
\* original_destination_cluster for a dynamic rule), then the selector's headers.
C11_RoutingHeaders ==
    LET o == last.out
        hs == o.reply.headerMutation.SetHeaders
        n == Len(o.translated)
        m == Len(o.contributed)
        dynamic == o.c.dynamicLB /= "nil"
    IN  (last.event = "RequestBody" /\ o.reply.kind = "RequestBody")
            => /\ o.reply.clearRouteCache
               /\ ~o.reply.headerMutation.nil
               /\ Len(hs) >= n + 2 + m
               /\ Slice(hs, 1, n) = o.translated
               /\ hs[n + 1] = <<modelNameHeaderKey, o.parsed[1].Model>>
               /\ hs[n + 2] = <<selectedBackendHeaderKey,
                                IF dynamic THEN "original_destination_cluster" ELSE o.route>>
               /\ Slice(hs, n + 3, n + 2 + m) = o.contributed
               /\ ~dynamic => m = 0

C11_Witness ==
    /\ last.event = "RequestBody"
    /\ last.out.reply.kind = "RequestBody"
    /\ last.out.c.dynamicLB /= "nil"
    /\ last.out.translated /= << >>
    /\ last.out.contributed /= << >>

\* C12: on the dynamic path no auth handler is called; on the non-dynamic path the
\* handler of the router's backend is called once, after the routing headers are
\* appended, and its error is fatal.
C12_AuthOnlyNonDynamic ==
    LET o == last.out
        hs == o.reply.headerMutation.SetHeaders
        dynamic == o.c.dynamicLB /= "nil"
    IN  last.event = "RequestBody"
            => /\ dynamic => o.authCalls = << >>
               /\ (~dynamic /\ o.reply.kind = "RequestBody")
                      => /\ o.authCalls =
                                (IF o.route \in backendAuthHandlers THEN <<o.route>> ELSE << >>)
                         /\ o.authCalls /= << >>
                                => /\ Len(hs) = Len(o.translated) + 3
                                   /\ hs[Len(hs)] = <<"authorization", "credential">>
               /\ o.err = "failed to do auth request"
                      => /\ o.reply.kind = "none"
                         /\ Len(o.authCalls) = 1
                         /\ o.completions = <<FALSE>>

\* C13: with no translator bound a response event is answered with an empty
\* response and no error, whatever the remembered content-encoding and the bytes,
\* and the token totals, the translator and the stream flag stay as they were.
C13_NoTranslatorEmptyResponse ==
    (ResponseEvent /\ c.translator = "nil")
        => /\ last.out.err = "nil"
           /\ last.out.reply.kind = last.event
           /\ last.out.reply.response = "nil"
           /\ ~MutationEmitted(last.out.reply)
           /\ c.costs = last.costsBefore
           /\ ~c.stream

\* What the stream of the last handler has set on the sink.
OwnOfLast == IF last.stream = 1 THEN ghost.own ELSE peer.own

\* C14: what a stream records (token usage, request completion) is recorded under
\* the model and the backend that stream set: the other stream never overwrites them.
C14_StreamsShareNothing ==
    (last.out.completions /= << >> \/ last.out.tokenUsage /= << >>)
        => /\ metrics.model = OwnOfLast.model
           /\ metrics.backend = OwnOfLast.backend

\* C15: an empty response body with end_of_stream is handled without error, whatever
\* content-encoding the stream remembers, unless the translator or a cost
\* expression fails; with a translator bound and cost rules configured its reply
\* carries the metadata.
C15_EmptyFinalBody ==
    LET o == last.out
    IN  (last.event = "ResponseBody" /\ last.body = BodyEmpty /\ last.endOfStream
            /\ o.err \notin {"failed to transform response", "failed to build dynamic metadata"})
            => /\ o.err = "nil"
               /\ o.reply.kind = "ResponseBody"
               /\ (c.translator /= "nil" /\ Len(config.requestCosts) > 0)
                      => ~o.reply.dynamicMetadata.nil

\* C16: every handler ends by returning an error or a response; none panics,
\* whatever the router answers.
C16_NoPanic ==
    last.event /= "none"
        => /\ ~last.out.panic
           /\ last.out.err /= "nil" \/ last.out.reply.kind /= "none"

\* C17: with an inbound schema other than OpenAI construction fails with the
\* unsupported-schema error and gives no processor, and no event is ever handled
\* or routed; with OpenAI the new processor has no translator, zero token totals,
\* the stream flag false and no selector handle.
C17_FactoryChecksSchema ==
    /\ config.schema /= APISchemaOpenAI
           => /\ c.nil
              /\ last.event = "none"
              /\ last.out.err = "unsupported API schema"
              /\ last.out.routed = << >>
              /\ ghost.events = 0
    /\ (config.schema = APISchemaOpenAI /\ ghost.events = 0 /\ last.event = "none")
           => /\ ~c.nil
              /\ last.out.err = "nil"
              /\ c.translator = "nil"
              /\ c.costs = LLMTokenUsage(U32Zero, U32Zero, U32Zero)
              /\ ~c.stream
              /\ c.dynamicLB = "nil"

C17_Witness ==
    /\ config.schema /= APISchemaOpenAI
    /\ c.nil
    /\ last.out.err = "unsupported API schema"

\* C18: for a streaming request the token-latency metric gets, on every
\* response-body event, the output tokens accumulated over the stream so far; for
\* a request that is not streaming it is never recorded.
C18_TokenLatencyIsCumulative ==
    last.event = "ResponseBody"
        => /\ last.out.tokenLatency /= << >>
                  => /\ ghost.request.stream
                     /\ NatOfU32(last.out.tokenLatency[1]) = ghost.sums["OutputTokens"]
           /\ ~ghost.request.stream => last.out.tokenLatency = << >>

\* C19: request completion is recorded at most once over a stream, and only by the
\* event that ends it: a failed event or the response body with end_of_stream.
C19_CompletionRecordedOnce ==
    /\ ghost.completions <= 1
    /\ (last.event /= "none" /\ last.out.completions /= << >>)
           => ghost.closed \/ (last.event = "ResponseBody" /\ last.endOfStream)

\* The errors a handler returns, by event.
HandlerErrors ==
    [ RequestHeaders |-> { },
      RequestBody |-> { "failed to parse request body", "failed to calculate route",
                        "failed to select endpoint", "failed to select translator",
                        "failed to transform request", "failed to do auth request" },
      ResponseHeaders |-> { "failed to transform response headers" },
      ResponseBody |-> { "failed to decode gzip", "failed to transform response",
                         "failed to build dynamic metadata" } ]

\* C20: a handler that returns an error records the request as failed exactly once
\* and records no success; a response-body handler that returns no error records
\* one success.
C20_FailureRecordedOnce ==
    last.event /= "none"
        => /\ last.out.err /= "nil"
                  => /\ last.out.err \in HandlerErrors[last.event]
                     /\ last.out.completions = <<FALSE>>
           /\ (last.event = "ResponseBody" /\ last.out.err = "nil")
                  => last.out.completions = <<TRUE>>

C20_Witness ==
    /\ last.event = "ResponseBody"
    /\ last.out.err = "failed to decode gzip"
    /\ last.out.completions = <<FALSE>>
    /\ ghost.completions = 1

\* C21: after a request body that succeeded the bound translator is the one for the
\* schema of the backend that event chose, and a chosen backend of another schema
\* than OpenAI, AWSBedrock and AzureOpenAI fails the event with the
\* unsupported-schema error, also when a translator was bound before.
C21_TranslatorOfChosenSchema ==
    LET o == last.out
    IN  (last.event = "RequestBody" /\ o.chosen /= << >>)
            => /\ o.reply.kind = "RequestBody" => c.translator = o.chosen[1].Schema
               /\ o.chosen[1].Schema
                      \notin {APISchemaOpenAI, APISchemaAWSBedrock, APISchemaAzureOpenAI}
                      => o.err = "failed to select translator"

\* The header map the router gets from a new processor with the client's headers h
\* for a request body naming model m.
RoutedFor(h, m) ==
    RequestBodyOutcome(NewProcessor(h), NoMetrics,
                       [json |-> TRUE, Model |-> m, Stream |-> FALSE],
                       ErrRoute, ErrSelector, OkRequest, "nil").routed

\* C22: the router gets the client's headers with the model-name header set to the
\* model parsed from the body; two requests that differ only in the model-name
\* header the client sent give the router the same header map.
C22_RouterSeesBodyModel ==
    LET o == last.out
    IN  (last.event = "RequestBody" /\ o.route /= "none")
            => /\ Len(o.routed) = 1
               /\ o.routed[1][modelNameHeaderKey] = o.parsed[1].Model
               /\ o.routed[1] = [ghost.client EXCEPT ![modelNameHeaderKey] = o.parsed[1].Model]
               /\ \A h \in [HeaderKeys -> ClientHeaderValues] :
                      (\A k \in HeaderKeys \ {modelNameHeaderKey} : h[k] = ghost.client[k])
                          => RoutedFor(h, o.parsed[1].Model) = o.routed

C22_Witness ==
    /\ last.event = "RequestBody"
    /\ last.out.route /= "none"
    /\ ghost.client[modelNameHeaderKey] = "client-value"
    /\ last.out.routed[1][modelNameHeaderKey] = "gpt-4o-mini"

\* C23: in a gzip-encoded response delivered as several response-body events, the
\* event after the one that began the gzip member carries the member's next bytes
\* and is handled without a decompression error.
C23_GzipContinues ==
    [][ (/\ c.responseEncoding = "gzip"
         /\ last.event = "ResponseBody" /\ last.body = BodyGzipHead
         /\ last.out.err = "nil" /\ ~last.endOfStream
         /\ ghost'.bodies = ghost.bodies + 1
         /\ last'.event = "ResponseBody" /\ last'.body = BodyOther)
        => last'.out.err /= "failed to decode gzip" ]_vars

====
